---- MODULE Spec2Model ----
(***************************************************************************)
(* Model of tournaments/utils.py: the confirmation prompt                  *)
(* (prompt_yes_or_no) running as concurrent invocations in one channel,    *)
(* and the retry wrapper (async_http_retry).                               *)
(***************************************************************************)
EXTENDS Integers, Sequences, FiniteSets, TLC

\* ------------------------------------------------------------------------
\* Bounds
\* ------------------------------------------------------------------------
\* number of concurrent invocations of prompt_yes_or_no in the channel
NPrompts == 2
\* largest timeout argument, in timer ticks
MaxTimeout == 2

\* ------------------------------------------------------------------------
\* Inputs of prompt_yes_or_no
\* ------------------------------------------------------------------------
Prompts == 1..NPrompts
Users == {"alice", "bob"}
None == "None"
Contents == {None, "text"}
Embeds == {None, "embed"}
Timeouts == 1..MaxTimeout

\* ctx of invocation p: ctx.author.id and ctx.message.id (the platform hands
\* out a distinct identifier to every invoking message)
Contexts ==
    [author : Users, message_id : Prompts]

\* the keyword arguments of prompt_yes_or_no
Arguments ==
    [content : Contents, embed : Embeds, timeout : Timeouts,
     delete_after : BOOLEAN, negative_response : BOOLEAN]

\* f"yes-{ctx.message.id}" and f"no-{ctx.message.id}"
CustomId(prefix, id) == <<prefix, id>>
approve_button(c) == CustomId("yes", c.message_id)
deny_button(c) == CustomId("no", c.message_id)

\* a component of the bot that belongs to no confirmation prompt
OtherControl == CustomId("other", 0)

\* view.add_item(approve_button); view.add_item(deny_button)
view(c) == {approve_button(c), deny_button(c)}

\* the prompt message as the platform stores it; a message sent with
\* content=None has the empty string as its content
NoMessage == [state |-> "none", content |-> "", embed |-> None, view |-> {}]
SentMessage(content, embed, v) ==
    [state |-> "live",
     content |-> IF content = None THEN "" ELSE content,
     embed |-> embed,
     view |-> v]

VARIABLES
    ctx,          \* ctx[p]: context of invocation p
    args,         \* args[p]: arguments of invocation p
    pc,           \* pc[p]: position of invocation p in prompt_yes_or_no
    message,      \* message[p]: the prompt message of invocation p
    x,            \* x[p]: the interaction wait_for returned
    remaining,    \* remaining[p]: ticks left on the timer of wait_for
    elapsed,      \* elapsed[p]: ticks that passed while p was waiting
    ignored,      \* ignored[p]: interactions check_same_user rejected
    pending,      \* pending[p]: what the try statement left for finally
    result,       \* result[p]: what the caller of p received
    notices,      \* notices[p]: notices sent by p, by text
    cleanups,     \* cleanups[p]: delete and edit calls on the prompt
    rpc, coro, awaits, retry, sleeps, last_exc, outcome,
    tournaments,  \* cog.tournaments: guild id -> tournament
    credentials,  \* cog.data: guild id -> stored credential mapping
    phase_hook,   \* the call of the hook of only_phase
    perm_check,   \* the call of the check of mod_or_to
    cred_hook     \* the call of the hook of credentials_check

pvars == <<ctx, args, pc, message, x, remaining, elapsed, ignored, pending,
           result, notices, cleanups>>
rvars == <<rpc, coro, awaits, retry, sleeps, last_exc, outcome>>
gvars == <<tournaments, credentials, phase_hook, perm_check, cred_hook>>
vars == <<pvars, rvars, gvars>>

NoInteraction == [user |-> None, custom_id |-> <<None, 0>>]
Interactions ==
    [user : Users,
     custom_id : ({"yes", "no"} \X Prompts) \cup {OtherControl}]

\* ------------------------------------------------------------------------
\* prompt_yes_or_no
\* ------------------------------------------------------------------------
\* largest count of rejected interactions the model tells apart
MaxIgnored == 2

\* a check that accepts the interaction of any user
check_any_user(c, interaction) == interaction.user \in Users

\* def check_same_user(interaction)
check_same_user(c, interaction) == interaction.user = c.author

\* the comparison made with the identifier of the deny control
IsApproval_Swapped(c, interaction) ==
    interaction.custom_id = CustomId("no", c.message_id)

\* custom_id == f"yes-{ctx.message.id}"
IsApproval(c, interaction) == interaction.custom_id = approve_button(c)

\* the branch the finally clause takes
CleanupCall(a) == IF a.delete_after THEN "delete" ELSE "edit"

\* message.edit(content=message.content, embed=embed, view=None)
EditedMessage(m, a) ==
    [state |-> "live", content |-> m.content, embed |-> a.embed, view |-> {}]

DeletedMessage == [NoMessage EXCEPT !.state = "deleted"]

Texts == {"Request timed out.", "Cancelled."}

\* the state before any invocation has run; an invocation at "idle" is one
\* that is never made
PromptStart(invoked) ==
    /\ pc = [p \in Prompts |-> IF p \in invoked THEN "send" ELSE "idle"]
    /\ message = [p \in Prompts |-> NoMessage]
    /\ x = [p \in Prompts |-> NoInteraction]
    /\ remaining = [p \in Prompts |-> 0]
    /\ elapsed = [p \in Prompts |-> 0]
    /\ ignored = [p \in Prompts |-> 0]
    /\ pending = [p \in Prompts |-> "none"]
    /\ result = [p \in Prompts |-> "none"]
    /\ notices = [p \in Prompts |-> [t \in Texts |-> 0]]
    /\ cleanups = [p \in Prompts |-> [k \in {"delete", "edit"} |-> 0]]

PairArguments ==
    [content |-> "text", embed |-> None, timeout |-> 1,
     delete_after |-> TRUE, negative_response |-> TRUE]

\* one invocation, with any arguments, in a channel other users act in
PromptInit ==
    /\ ctx \in {c \in [Prompts -> Contexts] :
                    \A p \in Prompts :
                        /\ c[p].message_id = p
                        /\ p # 1 => c[p].author = "alice"}
    /\ args \in {a \in [Prompts -> Arguments] :
                    \A p \in Prompts : p # 1 => a[p] = PairArguments}
    /\ PromptStart({1})

\* every invocation is made: the first by alice with any flags, the others
\* by any user (alice again, or another) with the default arguments; all
\* with the text and the timeout of PairArguments
PairInit ==
    /\ ctx \in {c \in [Prompts -> Contexts] :
                    \A p \in Prompts :
                        /\ c[p].message_id = p
                        /\ p = 1 => c[p].author = "alice"}
    /\ args \in {a \in [Prompts -> Arguments] :
                    \A p \in Prompts :
                        /\ a[p].content = PairArguments.content
                        /\ a[p].embed = PairArguments.embed
                        /\ a[p].timeout = PairArguments.timeout
                        /\ p # 1 => a[p] = PairArguments}
    /\ PromptStart(Prompts)

\* message = await ctx.send(content, embed=embed, view=view): the platform
\* stores the message, or refuses it (missing permissions) and send raises
SendPrompt(p) ==
    /\ pc[p] = "send"
    /\ \E ok \in BOOLEAN :
        IF ok
        THEN /\ message' = [message EXCEPT ![p] =
                    SentMessage(args[p].content, args[p].embed, view(ctx[p]))]
             /\ pc' = [pc EXCEPT ![p] = "sent"]
             /\ result' = result
        ELSE /\ pc' = [pc EXCEPT ![p] = "raised"]
             /\ result' = [result EXCEPT ![p] = "error:send"]
             /\ message' = message
    /\ UNCHANGED <<ctx, args, x, remaining, elapsed, ignored, pending,
                   notices, cleanups>>
    /\ UNCHANGED <<rvars, gvars>>

\* ctx.bot.wait_for("interaction", check=check_same_user, timeout=timeout):
\* the listener is registered and the timer armed
BeginWait(p) ==
    /\ pc[p] = "sent"
    /\ pc' = [pc EXCEPT ![p] = "wait"]
    /\ remaining' = [remaining EXCEPT ![p] = args[p].timeout]
    /\ UNCHANGED <<ctx, args, message, x, elapsed, ignored, pending, result,
                   notices, cleanups>>
    /\ UNCHANGED <<rvars, gvars>>

Waiting == {p \in Prompts : pc[p] = "wait"}

\* the controls a user can press: those of the live prompt messages, and
\* the components the bot shows elsewhere
Pressable ==
    {OtherControl} \cup UNION {message[p].view : p \in Prompts}

\* what the dispatch of interaction i does to the timer of a listener whose
\* check rejected it
TimerAfterRejected(p) == remaining[p]

\* the "interaction" event is dispatched to every registered listener: a
\* listener whose check accepts it is removed and its waiter resumes with
\* the interaction, the others stay registered
Interaction(i) ==
    /\ i.custom_id \in Pressable
    /\ Waiting # {}
    /\ x' = [p \in Prompts |->
                IF p \in Waiting /\ check_same_user(ctx[p], i)
                THEN i ELSE x[p]]
    /\ pc' = [p \in Prompts |->
                IF p \in Waiting /\ check_same_user(ctx[p], i)
                THEN "handle" ELSE pc[p]]
    /\ ignored' = [p \in Prompts |->
                IF p \in Waiting /\ ~check_same_user(ctx[p], i)
                     /\ ignored[p] < MaxIgnored
                THEN ignored[p] + 1 ELSE ignored[p]]
    /\ remaining' = [p \in Prompts |->
                IF p \in Waiting /\ ~check_same_user(ctx[p], i)
                THEN TimerAfterRejected(p) ELSE remaining[p]]
    /\ UNCHANGED <<ctx, args, message, elapsed, pending, result, notices,
                   cleanups>>
    /\ UNCHANGED <<rvars, gvars>>

\* one tick of the clock the timers of wait_for run on
Tick ==
    /\ Waiting # {}
    /\ \A p \in Waiting : remaining[p] > 0
    /\ remaining' = [p \in Prompts |->
                IF p \in Waiting THEN remaining[p] - 1 ELSE remaining[p]]
    /\ elapsed' = [p \in Prompts |->
                IF p \in Waiting THEN elapsed[p] + 1 ELSE elapsed[p]]
    /\ UNCHANGED <<ctx, args, pc, message, x, ignored, pending, result,
                   notices, cleanups>>
    /\ UNCHANGED <<rvars, gvars>>

\* a timer that is never armed (timeout=None)
Timeout_Never(p) ==
    /\ pc[p] = "wait"
    /\ remaining[p] < 0
    /\ pc' = [pc EXCEPT ![p] = "timeout_notice"]
    /\ UNCHANGED <<ctx, args, message, x, remaining, elapsed, ignored,
                   pending, result, notices, cleanups>>
    /\ UNCHANGED <<rvars, gvars>>

\* the timer of wait_for fires: asyncio.TimeoutError is raised in the waiter
Timeout(p) ==
    /\ pc[p] = "wait"
    /\ remaining[p] = 0
    /\ pc' = [pc EXCEPT ![p] = "timeout_notice"]
    /\ UNCHANGED <<ctx, args, message, x, remaining, elapsed, ignored,
                   pending, result, notices, cleanups>>
    /\ UNCHANGED <<rvars, gvars>>

\* await ctx.send(text), followed by return False; a failing send raises
SendNotice(p, text) ==
    \E ok \in BOOLEAN :
        IF ok
        THEN /\ notices' = [notices EXCEPT ![p][text] = @ + 1]
             /\ pending' = [pending EXCEPT ![p] = "False"]
        ELSE /\ notices' = notices
             /\ pending' = [pending EXCEPT ![p] = "error:notice"]

\* a timeout handler that returns False without sending the notice
TimeoutNotice_Silent(p) ==
    /\ pc[p] = "timeout_notice"
    /\ pending' = [pending EXCEPT ![p] = "False"]
    /\ pc' = [pc EXCEPT ![p] = "cleanup"]
    /\ UNCHANGED <<ctx, args, message, x, remaining, elapsed, ignored,
                   result, cleanups, notices>>
    /\ UNCHANGED <<rvars, gvars>>

\* except asyncio.TimeoutError: send the notice, return False
TimeoutNotice(p) ==
    /\ pc[p] = "timeout_notice"
    /\ SendNotice(p, "Request timed out.")
    /\ pc' = [pc EXCEPT ![p] = "cleanup"]
    /\ UNCHANGED <<ctx, args, message, x, remaining, elapsed, ignored,
                   result, cleanups>>
    /\ UNCHANGED <<rvars, gvars>>

\* a branch on custom_id that sends the notice whatever negative_response is
HandleResponse_AlwaysNotice(p) ==
    /\ pc[p] = "handle"
    /\ IF IsApproval(ctx[p], x[p])
       THEN /\ pending' = [pending EXCEPT ![p] = "True"]
            /\ pc' = [pc EXCEPT ![p] = "cleanup"]
       ELSE /\ pending' = pending
            /\ pc' = [pc EXCEPT ![p] = "cancel_notice"]
    /\ UNCHANGED <<ctx, args, message, x, remaining, elapsed, ignored,
                   result, notices, cleanups>>
    /\ UNCHANGED <<rvars, gvars>>

\* else: the branch on custom_id
HandleResponse(p) ==
    /\ pc[p] = "handle"
    /\ IF IsApproval(ctx[p], x[p])
       THEN /\ pending' = [pending EXCEPT ![p] = "True"]
            /\ pc' = [pc EXCEPT ![p] = "cleanup"]
       ELSE IF args[p].negative_response
       THEN /\ pending' = pending
            /\ pc' = [pc EXCEPT ![p] = "cancel_notice"]
       ELSE /\ pending' = [pending EXCEPT ![p] = "False"]
            /\ pc' = [pc EXCEPT ![p] = "cleanup"]
    /\ UNCHANGED <<ctx, args, message, x, remaining, elapsed, ignored,
                   result, notices, cleanups>>
    /\ UNCHANGED <<rvars, gvars>>

\* if negative_response: await ctx.send(_("Cancelled.")), then return False
CancelNotice(p) ==
    /\ pc[p] = "cancel_notice"
    /\ SendNotice(p, "Cancelled.")
    /\ pc' = [pc EXCEPT ![p] = "cleanup"]
    /\ UNCHANGED <<ctx, args, message, x, remaining, elapsed, ignored,
                   result, cleanups>>
    /\ UNCHANGED <<rvars, gvars>>

\* cleanup written after the try statement instead of in a finally clause:
\* it is skipped when the try statement raised
Cleanup_NoFinally(p) ==
    /\ pc[p] = "cleanup"
    /\ IF pending[p] \in {"True", "False"}
       THEN /\ cleanups' = [cleanups EXCEPT ![p][CleanupCall(args[p])] = @ + 1]
            /\ \E ok \in BOOLEAN :
                IF ok
                THEN /\ message' = [message EXCEPT ![p] =
                            IF CleanupCall(args[p]) = "delete"
                            THEN DeletedMessage
                            ELSE EditedMessage(message[p], args[p])]
                     /\ result' = [result EXCEPT ![p] = pending[p]]
                     /\ pc' = [pc EXCEPT ![p] = "returned"]
                ELSE /\ message' = message
                     /\ result' = [result EXCEPT ![p] = "error:cleanup"]
                     /\ pc' = [pc EXCEPT ![p] = "raised"]
       ELSE /\ cleanups' = cleanups
            /\ message' = message
            /\ result' = [result EXCEPT ![p] = pending[p]]
            /\ pc' = [pc EXCEPT ![p] = "raised"]
    /\ UNCHANGED <<ctx, args, x, remaining, elapsed, ignored, pending,
                   notices>>
    /\ UNCHANGED <<rvars, gvars>>

\* a finally clause that swallows the error of its own call and lets the
\* pending return or exception take effect
Cleanup_Swallowed(p) ==
    /\ pc[p] = "cleanup"
    /\ cleanups' = [cleanups EXCEPT ![p][CleanupCall(args[p])] = @ + 1]
    /\ \E ok \in BOOLEAN :
        message' = [message EXCEPT ![p] =
                        IF ~ok THEN @
                        ELSE IF CleanupCall(args[p]) = "delete"
                        THEN DeletedMessage
                        ELSE EditedMessage(message[p], args[p])]
    /\ result' = [result EXCEPT ![p] = pending[p]]
    /\ pc' = [pc EXCEPT ![p] =
                IF pending[p] \in {"True", "False"}
                THEN "returned" ELSE "raised"]
    /\ UNCHANGED <<ctx, args, x, remaining, elapsed, ignored, pending,
                   notices>>
    /\ UNCHANGED <<rvars, gvars>>

\* finally: delete the prompt or strip its view; then the pending return or
\* exception of the try statement takes effect, unless the call itself
\* raises
Cleanup(p) ==
    /\ pc[p] = "cleanup"
    /\ cleanups' = [cleanups EXCEPT ![p][CleanupCall(args[p])] = @ + 1]
    /\ \E ok \in BOOLEAN :
        IF ok
        THEN /\ message' = [message EXCEPT ![p] =
                    IF CleanupCall(args[p]) = "delete"
                    THEN DeletedMessage
                    ELSE EditedMessage(message[p], args[p])]
             /\ result' = [result EXCEPT ![p] = pending[p]]
             /\ pc' = [pc EXCEPT ![p] =
                    IF pending[p] \in {"True", "False"}
                    THEN "returned" ELSE "raised"]
        ELSE /\ message' = message
             /\ result' = [result EXCEPT ![p] = "error:cleanup"]
             /\ pc' = [pc EXCEPT ![p] = "raised"]
    /\ UNCHANGED <<ctx, args, x, remaining, elapsed, ignored, pending,
                   notices>>
    /\ UNCHANGED <<rvars, gvars>>

PromptNext ==
    \/ \E p \in Prompts : SendPrompt(p)
    \/ \E p \in Prompts : BeginWait(p)
    \/ \E i \in Interactions : Interaction(i)
    \/ Tick
    \/ \E p \in Prompts : Timeout(p)
    \/ \E p \in Prompts : TimeoutNotice(p)
    \/ \E p \in Prompts : HandleResponse(p)
    \/ \E p \in Prompts : CancelNotice(p)
    \/ \E p \in Prompts : Cleanup(p)

\* ------------------------------------------------------------------------
\* async_http_retry
\* ------------------------------------------------------------------------
\* longest message of a ChallongeException, in characters
MaxMsgLen == 4

\* a range of two iterations
RetryRange_Two == 1 + 1

\* for retry in range(1)
RetryRange == 1
\* the 1 of asyncio.sleep(1 + retry)
BaseDelay == 1

Chars == {"5", "0", "4"}
Messages == UNION {[1..n -> Chars] : n \in 0..MaxMsgLen}

\* "504" in str(e): the message has "504" as a substring
GatewayTimeout == <<"5", "0", "4">>
Contains(s, sub) ==
    \E i \in 1..(Len(s) - Len(sub) + 1) :
        SubSeq(s, i, i + Len(sub) - 1) = sub
\* a test that takes every remote-service error for a gateway timeout
IsGatewayTimeout_Any(e) == Len(e.msg) >= 0
IsGatewayTimeout(e) == Contains(e.msg, GatewayTimeout)

\* exceptions: the type, the message and the __cause__; NoExc is Python's
\* None where an exception may stand
NoExc == [type |-> "None"]
ChallongeException(msg) ==
    [type |-> "ChallongeException", msg |-> msg, cause |-> NoExc]
TimeoutError(cause) ==
    [type |-> "TimeoutError", msg |-> <<>>, cause |-> cause]
RuntimeError ==
    [type |-> "RuntimeError", msg |-> <<>>, cause |-> NoExc]

\* what the pending operation does when it is awaited: it produces a value
\* or raises a remote-service error or a local timeout
Operations ==
    [kind : {"value"}, value : {"bracket", "match"}, exc : {NoExc}]
    \cup {[kind |-> "raise", value |-> None, exc |-> ChallongeException(m)] :
            m \in Messages}
    \cup {[kind |-> "raise", value |-> None, exc |-> TimeoutError(NoExc)]}

Returned(v) == [kind |-> "return", value |-> v, exc |-> NoExc]
Raised(e) == [kind |-> "raise", value |-> None, exc |-> e]

\* raise asyncio.TimeoutError, without the cause
Exhausted_NoCause(last) == Raised(TimeoutError(NoExc))

\* raise asyncio.TimeoutError from last_exc
Exhausted(last) == Raised(TimeoutError(last))

\* no call of async_http_retry is in progress
RetryIdle ==
    /\ rpc = "idle" /\ coro = None /\ awaits = 0 /\ retry = -1
    /\ sleeps = <<>> /\ last_exc = NoExc /\ outcome = None

\* async_http_retry(coro) is called: last_exc = None
RetryInit ==
    /\ coro \in Operations
    /\ rpc = "for"
    /\ awaits = 0
    /\ retry = -1
    /\ sleeps = <<>>
    /\ last_exc = NoExc
    /\ outcome = None

\* for retry in range(RetryRange): the next index, or the else clause when
\* the range is used up
ForRetry ==
    /\ rpc = "for"
    /\ IF retry + 1 < RetryRange
       THEN /\ retry' = retry + 1
            /\ rpc' = "await"
       ELSE /\ retry' = retry
            /\ rpc' = "else"
    /\ UNCHANGED <<coro, awaits, sleeps, last_exc, outcome>>
    /\ UNCHANGED <<pvars, gvars>>

\* return await coro, and the except clauses; a coroutine that was awaited
\* before raises RuntimeError, which no clause catches
AwaitCoro ==
    /\ rpc = "await"
    /\ awaits' = awaits + 1
    /\ IF awaits > 0
       THEN /\ outcome' = Raised(RuntimeError)
            /\ rpc' = "done"
            /\ last_exc' = last_exc
       ELSE IF coro.kind = "value"
       THEN /\ outcome' = Returned(coro.value)
            /\ rpc' = "done"
            /\ last_exc' = last_exc
       ELSE IF coro.exc.type = "ChallongeException"
       THEN /\ last_exc' = coro.exc
            /\ IF IsGatewayTimeout(coro.exc)
               THEN /\ rpc' = "sleep"
                    /\ outcome' = outcome
               ELSE /\ rpc' = "done"
                    /\ outcome' = Raised(coro.exc)
       ELSE /\ last_exc' = coro.exc
            /\ rpc' = "for"
            /\ outcome' = outcome
    /\ UNCHANGED <<coro, retry, sleeps>>
    /\ UNCHANGED <<pvars, gvars>>

\* await asyncio.sleep(1 + retry)
Sleep ==
    /\ rpc = "sleep"
    /\ sleeps' = Append(sleeps, BaseDelay + retry)
    /\ rpc' = "for"
    /\ UNCHANGED <<coro, awaits, retry, last_exc, outcome>>
    /\ UNCHANGED <<pvars, gvars>>

\* else: raise asyncio.TimeoutError from last_exc
ElseRaise ==
    /\ rpc = "else"
    /\ outcome' = Exhausted(last_exc)
    /\ rpc' = "done"
    /\ UNCHANGED <<coro, awaits, retry, sleeps, last_exc>>
    /\ UNCHANGED <<pvars, gvars>>

RetryNext ==
    \/ ForRetry
    \/ AwaitCoro
    \/ Sleep
    \/ ElseRaise

\* ------------------------------------------------------------------------
\* The registry and the store the gates read
\* ------------------------------------------------------------------------
Guilds == {1, 2}
Phases == {"pending", "ongoing", "finished"}
Roles == {"organizer", "member"}

\* a tournament, as far as this file reads it: tournament.phase and
\* tournament.to_role (a role, or None)
Tournaments == [phase : Phases, to_role : Roles \cup {None}]

\* a dict: a function on the keys it holds
Dicts(keys, values) == UNION {[d -> values] : d \in SUBSET keys}

\* no call of a gate is in progress
NoCall == [pc |-> "idle"]
GatesIdle ==
    /\ tournaments = <<>>
    /\ credentials = <<>>
    /\ phase_hook = NoCall
    /\ perm_check = NoCall
    /\ cred_hook = NoCall

\* ------------------------------------------------------------------------
\* only_phase
\* ------------------------------------------------------------------------
NoTournament == "There's no ongoing tournament."
NotNow == "This command cannot be executed right now."

\* only_phase(*allowed_phases) decorates a command; the hook runs for an
\* invocation in guild ctx.guild.id
PhaseInit ==
    /\ tournaments \in Dicts(Guilds, [phase : Phases, to_role : {None}])
    /\ credentials = <<>>
    /\ phase_hook \in [pc : {"lookup"}, guild_id : Guilds,
                       allowed_phases : SUBSET Phases,
                       tournament : {None}, outcome : {None}]
    /\ perm_check = NoCall
    /\ cred_hook = NoCall

\* try: tournament = cog.tournaments[ctx.guild.id]
\* except KeyError: raise UserFeedbackCheckFailure
PhaseLookup ==
    /\ phase_hook.pc = "lookup"
    /\ IF phase_hook.guild_id \in DOMAIN tournaments
       THEN phase_hook' = [phase_hook EXCEPT
                !.pc = "check",
                !.tournament = tournaments[phase_hook.guild_id].phase]
       ELSE phase_hook' = [phase_hook EXCEPT
                !.pc = "done", !.outcome = NoTournament]
    /\ UNCHANGED <<tournaments, credentials, perm_check, cred_hook>>
    /\ UNCHANGED <<pvars, rvars>>

\* a hook without the return for the empty tuple
PhaseCheck_NoShortCircuit ==
    /\ phase_hook.pc = "check"
    /\ phase_hook' = [phase_hook EXCEPT
            !.pc = "done",
            !.outcome = IF phase_hook.tournament
                            \notin phase_hook.allowed_phases
                        THEN NotNow ELSE "allowed"]
    /\ UNCHANGED <<tournaments, credentials, perm_check, cred_hook>>
    /\ UNCHANGED <<pvars, rvars>>

\* if not allowed_phases: return
\* if tournament.phase not in allowed_phases: raise UserFeedbackCheckFailure
PhaseCheck ==
    /\ phase_hook.pc = "check"
    /\ phase_hook' = [phase_hook EXCEPT
            !.pc = "done",
            !.outcome = IF phase_hook.allowed_phases = {} THEN "allowed"
                        ELSE IF phase_hook.tournament
                                    \notin phase_hook.allowed_phases
                        THEN NotNow ELSE "allowed"]
    /\ UNCHANGED <<tournaments, credentials, perm_check, cred_hook>>
    /\ UNCHANGED <<pvars, rvars>>

PhaseNext ==
    \/ PhaseLookup
    \/ PhaseCheck

\* ------------------------------------------------------------------------
\* mod_or_to
\* ------------------------------------------------------------------------
UserIds == {1, 2}

\* ctx.guild is None
NoGuild == [id |-> 0, owner_id |-> 0]

\* ctx.guild (its id and owner_id, or None), ctx.author (its id, its
\* guild_permissions.administrator, its roles), and what ctx.bot.is_mod and
\* ctx.bot.is_owner answer for the author
PermInit ==
    /\ tournaments \in
            Dicts(Guilds, [phase : {"ongoing"}, to_role : Roles \cup {None}])
    /\ credentials = <<>>
    /\ phase_hook = NoCall
    /\ perm_check \in
            [pc : {"guild"},
             guild : {NoGuild} \cup [id : Guilds, owner_id : UserIds],
             author : [id : UserIds, administrator : BOOLEAN,
                       roles : SUBSET Roles],
             is_mod : BOOLEAN,
             is_owner : BOOLEAN,
             evaluated : {<<>>},
             outcome : {None}]
    /\ cred_hook = NoCall

\* one if statement of check: the rule is evaluated; the check returns the
\* verdict, or goes on to the next rule when there is none
PermRule(rule, verdict, next) ==
    /\ perm_check.pc = rule
    /\ perm_check' = [perm_check EXCEPT
            !.evaluated = Append(@, rule),
            !.pc = IF verdict = "next" THEN next ELSE "done",
            !.outcome = IF verdict = "next" THEN @ ELSE verdict]
    /\ UNCHANGED <<tournaments, credentials, phase_hook, cred_hook>>
    /\ UNCHANGED <<pvars, rvars>>

\* a check without the test for the guild
PermGuild_Skipped == PermRule("guild", "next", "owner")

\* if ctx.guild is None: return False
PermGuild ==
    PermRule("guild",
             IF perm_check.guild = NoGuild THEN "False" ELSE "next",
             "owner")

\* if ctx.author.id == ctx.guild.owner_id: return True
PermOwner ==
    PermRule("owner",
             IF perm_check.author.id = perm_check.guild.owner_id
             THEN "True" ELSE "next",
             "administrator")

\* a check without the administrator rule
PermAdministrator_Skipped == PermRule("administrator", "next", "is_mod")

\* if ctx.author.guild_permissions.administrator: return True
PermAdministrator ==
    PermRule("administrator",
             IF perm_check.author.administrator THEN "True" ELSE "next",
             "is_mod")

\* if await ctx.bot.is_mod(ctx.author): return True
PermIsMod ==
    PermRule("is_mod",
             IF perm_check.is_mod THEN "True" ELSE "next",
             "is_owner")

\* if await ctx.bot.is_owner(ctx.author): return True
PermIsOwner ==
    PermRule("is_owner",
             IF perm_check.is_owner THEN "True" ELSE "next",
             "tournament")

\* a lookup whose KeyError nothing catches
KeyErrorVerdict_Propagates == "KeyError"

\* except KeyError: return False
KeyErrorVerdict == "False"

\* try: tournament = ctx.cog.tournaments[ctx.guild.id]
PermTournament ==
    PermRule("tournament",
             IF perm_check.guild.id \in DOMAIN tournaments
             THEN "next" ELSE KeyErrorVerdict,
             "to_role")

\* if tournament.to_role and tournament.to_role in ctx.author.roles:
\*     return True
\* return False
PermToRole ==
    PermRule("to_role",
             LET tournament == tournaments[perm_check.guild.id]
             IN  IF /\ tournament.to_role # None
                    /\ tournament.to_role \in perm_check.author.roles
                 THEN "True" ELSE "False",
             "done")

PermNext ==
    \/ PermGuild
    \/ PermOwner
    \/ PermAdministrator
    \/ PermIsMod
    \/ PermIsOwner
    \/ PermTournament
    \/ PermToRole

\* ------------------------------------------------------------------------
\* credentials_check
\* ------------------------------------------------------------------------
CredentialKeys == {"username", "api"}
\* a stored value: None when unset, or a string (the empty one too)
CredentialValues == {None, "", "secret"}
Prefixes == {"!", "?"}

\* the hook let the command run
Allowed == [kind |-> "allowed", prefix |-> None]
\* UserFeedbackCheckFailure("You need to set your Challonge credentials ...
\* Use `{prefix}help challongeset` ..."), with ctx.clean_prefix filled in
CredentialsMissing(prefix) ==
    [kind |-> "UserFeedbackCheckFailure", prefix |-> prefix]

CredInit ==
    /\ tournaments = <<>>
    /\ credentials \in [Guilds -> Dicts(CredentialKeys, CredentialValues)]
    /\ phase_hook = NoCall
    /\ perm_check = NoCall
    /\ cred_hook \in [pc : {"fetch"}, guild : Guilds,
                      clean_prefix : Prefixes, credentials : {<<>>},
                      fetches : {0}, outcome : {Allowed}]

\* a test that wants every entry unset
AnyUnset_All(mapping) == \A k \in DOMAIN mapping : mapping[k] = None

\* any([x is None for x in credentials.values()])
AnyUnset(mapping) == \E k \in DOMAIN mapping : mapping[k] = None

\* credentials = await cog.data.guild(ctx.guild).credentials()
CredFetch ==
    /\ cred_hook.pc = "fetch"
    /\ cred_hook' = [cred_hook EXCEPT
            !.pc = "check",
            !.credentials = credentials[cred_hook.guild],
            !.fetches = @ + 1]
    /\ UNCHANGED <<tournaments, credentials, phase_hook, perm_check>>
    /\ UNCHANGED <<pvars, rvars>>

\* if any(...): raise commands.UserFeedbackCheckFailure(...)
CredCheck ==
    /\ cred_hook.pc = "check"
    /\ cred_hook' = [cred_hook EXCEPT
            !.pc = "done",
            !.outcome = IF AnyUnset(cred_hook.credentials)
                        THEN CredentialsMissing(cred_hook.clean_prefix)
                        ELSE Allowed]
    /\ UNCHANGED <<tournaments, credentials, phase_hook, perm_check>>
    /\ UNCHANGED <<pvars, rvars>>

CredNext ==
    \/ CredFetch
    \/ CredCheck

\* ------------------------------------------------------------------------
\* Specifications
\* ------------------------------------------------------------------------
NoPrompt ==
    /\ ctx = [p \in Prompts |-> [author |-> "alice", message_id |-> p]]
    /\ args = [p \in Prompts |-> PairArguments]
    /\ PromptStart({})

\* one confirmation prompt
Init == PromptInit /\ RetryIdle /\ GatesIdle
Next == PromptNext
Spec == Init /\ [][Next]_vars

\* concurrent confirmation prompts
InitPair == PairInit /\ RetryIdle /\ GatesIdle
SpecPair == InitPair /\ [][Next]_vars

\* one call of async_http_retry
InitRetry == NoPrompt /\ RetryInit /\ GatesIdle
NextRetry == RetryNext
SpecRetry == InitRetry /\ [][NextRetry]_vars

\* one call of the hook of only_phase
InitPhase == NoPrompt /\ RetryIdle /\ PhaseInit
NextPhase == PhaseNext
SpecPhase == InitPhase /\ [][NextPhase]_vars

\* one call of the check of mod_or_to
InitPerm == NoPrompt /\ RetryIdle /\ PermInit
NextPerm == PermNext
SpecPerm == InitPerm /\ [][NextPerm]_vars

\* one call of the hook of credentials_check
InitCred == NoPrompt /\ RetryIdle /\ CredInit
NextCred == CredNext
SpecCred == InitCred /\ [][NextCred]_vars

\* one confirmation prompt, every step of it taken in the end: the platform
\* answers each call, the clock runs and the timer of wait_for fires; no
\* user ever has to press anything
Fairness ==
    /\ WF_vars(Tick)
    /\ \A p \in Prompts :
        /\ WF_vars(SendPrompt(p))
        /\ WF_vars(BeginWait(p))
        /\ WF_vars(Timeout(p))
        /\ WF_vars(TimeoutNotice(p))
        /\ WF_vars(HandleResponse(p))
        /\ WF_vars(CancelNotice(p))
        /\ WF_vars(Cleanup(p))
SpecFair == Init /\ [][Next]_vars /\ Fairness

\* ------------------------------------------------------------------------
\* The states of the prompt's state machine, read off an invocation
\* ------------------------------------------------------------------------
Ended(p) == pc[p] \in {"returned", "raised"}
WasSent(p) == message[p].state # "none"
Approve(p) == [user |-> ctx[p].author, custom_id |-> <<"yes", ctx[p].message_id>>]
Deny(p) == [user |-> ctx[p].author, custom_id |-> <<"no", ctx[p].message_id>>]
CleanedUp(p) ==
    \/ message[p].state = "deleted"
    \/ message[p].state = "live" /\ message[p].view = {}
State(p) ==
    IF pc[p] \in {"idle", "send"} \/ ~WasSent(p) THEN "NOT_SENT"
    ELSE IF pc[p] = "sent" THEN "SENT"
    ELSE IF pc[p] = "wait" THEN "AWAITING_RESPONSE"
    ELSE IF CleanedUp(p) THEN "CLEANED_UP"
    ELSE IF x[p] = NoInteraction THEN "TIMED_OUT"
    ELSE IF x[p] = Approve(p) THEN "APPROVED"
    ELSE "DENIED"
Count(p, text) == notices[p][text]

\* ------------------------------------------------------------------------
\* Properties
\* ------------------------------------------------------------------------

\* C1: for every invocation whose prompt message was sent, cleanup is called
\* at most once at any time and exactly once by the time the invocation ends,
\* on every exit path (return or error): one delete and no edit when
\* delete_after is true, one edit and no delete otherwise; a successful edit
\* leaves the content and the embed as sent and no controls.
C1_CleanupExactlyOnce ==
    \A p \in Prompts :
        /\ cleanups[p]["delete"] + cleanups[p]["edit"] <= 1
        /\ (Ended(p) /\ WasSent(p)) =>
            /\ cleanups[p]["delete"] = (IF args[p].delete_after THEN 1 ELSE 0)
            /\ cleanups[p]["edit"] = (IF args[p].delete_after THEN 0 ELSE 1)
        /\ (Ended(p) /\ WasSent(p) /\ result[p] # "error:cleanup") =>
            IF args[p].delete_after
            THEN message[p].state = "deleted"
            ELSE /\ message[p].state = "live"
                 /\ message[p].view = {}
                 /\ message[p].embed = args[p].embed
                 /\ message[p].content =
                        (IF args[p].content = None THEN "" ELSE args[p].content)
        /\ ~Ended(p) /\ pc[p] # "cleanup" =>
            cleanups[p]["delete"] + cleanups[p]["edit"] = 0

\* C1 witness: a notice send failed, the invocation ended with that error
\* and the prompt was edited once
C1_Witness ==
    \E p \in Prompts :
        /\ pc[p] = "raised" /\ result[p] = "error:notice"
        /\ cleanups[p]["edit"] = 1 /\ message[p].view = {}
        /\ message[p].content = "text"

\* C2: a prompt that stops waiting because of a press was pressed on a
\* control that is not a control of another prompt.
C2_NoCrossTalk ==
    [][\A p \in Prompts :
        (pc[p] = "wait" /\ pc'[p] = "handle") =>
            \A q \in Prompts \ {p} : x'[p].custom_id \notin view(ctx[q])]_vars

\* C3: an interaction of a user other than the invoker leaves a waiting
\* prompt waiting and its timer as it was; the ticks waited and the ticks
\* left always add up to the timeout, and the timer fires after exactly
\* timeout ticks.
C3_ForeignEventsIgnored ==
    /\ [][\A p \in Prompts : \A i \in Interactions :
            (pc[p] = "wait" /\ i.user # ctx[p].author /\ Interaction(i)) =>
                /\ pc'[p] = "wait"
                /\ x'[p] = x[p]
                /\ remaining'[p] = remaining[p]]_vars
    /\ [](\A p \in Prompts :
            /\ pc[p] = "wait" => elapsed[p] + remaining[p] = args[p].timeout
            /\ pc[p] = "timeout_notice" => elapsed[p] = args[p].timeout
            /\ pc[p] = "handle" => x[p].user = ctx[p].author)

\* C3 witness: the prompt timed out after MaxIgnored interactions of other
\* users were rejected
C3_Witness ==
    \E p \in Prompts :
        /\ pc[p] = "timeout_notice"
        /\ ignored[p] = MaxIgnored
        /\ elapsed[p] = args[p].timeout

TimedOut(p) == State(p) = "TIMED_OUT" \/ (State(p) = "CLEANED_UP" /\ x[p] = NoInteraction)

\* C4: on the timeout path no "Cancelled." notice is ever sent and at most
\* one "Request timed out." notice; an invocation that returns has sent
\* exactly one, returns false, and has deleted the prompt when delete_after
\* is true.
C4_Timeout ==
    \A p \in Prompts :
        TimedOut(p) =>
            /\ Count(p, "Cancelled.") = 0
            /\ Count(p, "Request timed out.") <= 1
            /\ pc[p] = "returned" =>
                /\ result[p] = "False"
                /\ Count(p, "Request timed out.") = 1
                /\ args[p].delete_after => message[p].state = "deleted"

\* C4 witness: timed out, returned, prompt deleted
C4_Witness ==
    \E p \in Prompts :
        /\ pc[p] = "returned" /\ x[p] = NoInteraction
        /\ args[p].delete_after /\ message[p].state = "deleted"
        /\ Count(p, "Request timed out.") = 1

\* C5: an invocation that returns returns true exactly when the interaction
\* that ended its wait is the invoker's press of its own approve control,
\* and then it has sent no notice; otherwise it returns false.
C5_Approval ==
    \A p \in Prompts :
        pc[p] = "returned" =>
            /\ result[p] \in {"True", "False"}
            /\ result[p] = "True" <=> x[p] = Approve(p)
            /\ result[p] = "True" =>
                /\ Count(p, "Cancelled.") = 0
                /\ Count(p, "Request timed out.") = 0
                /\ elapsed[p] <= args[p].timeout

\* C5 witness: approved and returned true
C5_Witness ==
    \E p \in Prompts :
        pc[p] = "returned" /\ result[p] = "True" /\ x[p] = Approve(p)

\* C6: an invocation that returns after the invoker pressed its deny control
\* returns false and has sent one "Cancelled." notice when negative_response
\* is true and none when it is false; no "Cancelled." notice is ever sent by
\* an invocation that was approved or timed out, and never more than one.
C6_Denial ==
    \A p \in Prompts :
        /\ (pc[p] = "returned" /\ x[p] = Deny(p)) =>
            /\ result[p] = "False"
            /\ Count(p, "Cancelled.") =
                    (IF args[p].negative_response THEN 1 ELSE 0)
        /\ Count(p, "Cancelled.") <= 1
        /\ (x[p] = NoInteraction \/ x[p] = Approve(p)) =>
                Count(p, "Cancelled.") = 0

\* C6 witness: denied with negative_response, one notice, returned false
C6_Witness ==
    \E p \in Prompts :
        /\ pc[p] = "returned" /\ x[p] = Deny(p) /\ args[p].negative_response
        /\ Count(p, "Cancelled.") = 1

\* the transitions of the prompt's state machine
Outcomes == {"APPROVED", "DENIED", "TIMED_OUT"}
Transitions ==
    {<<"NOT_SENT", "SENT">>, <<"SENT", "AWAITING_RESPONSE">>}
    \cup {<<"AWAITING_RESPONSE", o>> : o \in Outcomes}
    \cup {<<o, "CLEANED_UP">> : o \in Outcomes}
StateMachine ==
    [][\A p \in Prompts :
        State(p)' # State(p) => <<State(p), State(p)'>> \in Transitions]_vars

\* C7 as stated: the transitions, and every sent prompt ends cleaned up and
\* returned.
C7_Original ==
    /\ StateMachine
    /\ \A p \in Prompts :
        (State(p) = "SENT") ~> (State(p) = "CLEANED_UP" /\ pc[p] = "returned")

\* C7 as amended: the transitions; every sent prompt ends, with cleanup
\* called once; it ends returned and cleaned up unless a notice send or the
\* cleanup call raised, and then it ends raising that error.
C7_Progress ==
    /\ StateMachine
    /\ \A p \in Prompts :
        (State(p) = "SENT") ~>
            (/\ Ended(p)
             /\ cleanups[p]["delete"] + cleanups[p]["edit"] = 1
             /\ \/ pc[p] = "returned" /\ State(p) = "CLEANED_UP"
                \/ pc[p] = "raised"
                    /\ result[p] \in {"error:notice", "error:cleanup"})
    /\ [](\A p \in Prompts :
            (pc[p] = "raised" /\ result[p] = "error:notice") =>
                State(p) = "CLEANED_UP")

\* C7 witness: no interaction ever arrived and the invocation returned
C7_Witness ==
    \E p \in Prompts :
        /\ pc[p] = "returned" /\ State(p) = "CLEANED_UP"
        /\ x[p] = NoInteraction /\ ignored[p] = 0

\* C8: an invocation whose prompt could not be sent returns false.
C8_SendFailureReturnsFalse ==
    \A p \in Prompts :
        (Ended(p) /\ ~WasSent(p)) =>
            (pc[p] = "returned" /\ result[p] = "False")

\* C9: a call whose first await failed with a 504 remote error or a local
\* timeout has awaited the operation twice by the time it ends.
C9_SecondAwait ==
    (/\ rpc = "done"
     /\ coro.kind = "raise"
     /\ \/ coro.exc.type = "TimeoutError"
        \/ Contains(coro.exc.msg, <<"5", "0", "4">>))
    => awaits = 2

\* C10: a call that ends has returned the operation's value, or propagated
\* the operation's remote error without "504", or raised a timeout error
\* whose cause is the last error it caught, which is the operation's 504
\* remote error or local timeout; the last is what happens whenever the
\* operation raises a remote error with "504".
C10_Exhaustion ==
    rpc = "done" =>
        /\ \/ outcome.kind = "return" /\ coro.kind = "value"
           \/ /\ outcome.kind = "raise" /\ coro.kind = "raise"
              /\ outcome.exc = coro.exc
              /\ coro.exc.type = "ChallongeException"
              /\ ~Contains(coro.exc.msg, <<"5", "0", "4">>)
           \/ /\ outcome.kind = "raise" /\ coro.kind = "raise"
              /\ outcome.exc.type = "TimeoutError"
              /\ outcome.exc.cause = last_exc
              /\ last_exc = coro.exc
              /\ \/ coro.exc.type = "TimeoutError"
                 \/ Contains(coro.exc.msg, <<"5", "0", "4">>)
        /\ (coro.kind = "raise" /\ Contains(coro.exc.msg, <<"5", "0", "4">>))
            => (outcome.kind = "raise"
                /\ outcome.exc.type = "TimeoutError"
                /\ outcome.exc.cause = coro.exc)

\* C10 witness: a 504 remote error ended in a timeout error chained to it
C10_Witness ==
    /\ rpc = "done" /\ coro.kind = "raise"
    /\ coro.exc.type = "ChallongeException"
    /\ outcome.kind = "raise" /\ outcome.exc.type = "TimeoutError"
    /\ outcome.exc.cause = coro.exc
    /\ sleeps = <<1>>

\* C11: a call whose operation raised a remote error without "504" has
\* propagated that same error, with its cause unchanged, after one await and
\* no delay; from the await on, no step but the propagation is taken. A call
\* whose operation produced a value has returned that value.
C11_Propagation ==
    /\ [](rpc = "done" =>
            /\ (/\ coro.kind = "raise"
                /\ coro.exc.type = "ChallongeException"
                /\ ~Contains(coro.exc.msg, <<"5", "0", "4">>)) =>
                    /\ outcome = [kind |-> "raise", value |-> None,
                                  exc |-> coro.exc]
                    /\ outcome.exc.type # "TimeoutError"
                    /\ awaits = 1
                    /\ sleeps = <<>>
            /\ coro.kind = "value" =>
                    /\ outcome = [kind |-> "return", value |-> coro.value,
                                  exc |-> NoExc]
                    /\ awaits = 1
                    /\ sleeps = <<>>)
    /\ [][(/\ rpc = "await"
           /\ coro.kind = "raise"
           /\ coro.exc.type = "ChallongeException"
           /\ ~Contains(coro.exc.msg, <<"5", "0", "4">>)) => rpc' = "done"]_vars

\* C11 witness: a remote error with the message "404" was propagated
C11_Witness ==
    /\ rpc = "done"
    /\ coro.kind = "raise"
    /\ coro.exc.type = "ChallongeException"
    /\ coro.exc.msg = <<"4", "0", "4">>
    /\ outcome.kind = "raise"
    /\ outcome.exc = coro.exc

C12_PhaseGate ==
    phase_hook.pc = "done" =>
        LET g == phase_hook.guild_id
            allowed == phase_hook.allowed_phases
            registered == g \in DOMAIN tournaments
        IN  /\ phase_hook.outcome \in {"allowed", NoTournament, NotNow}
            /\ phase_hook.outcome = "allowed" <=>
                (registered /\
                    (allowed = {} \/ tournaments[g].phase \in allowed))
            /\ ~registered => phase_hook.outcome = NoTournament
            /\ (registered /\ allowed # {}
                    /\ tournaments[g].phase \notin allowed)
                => phase_hook.outcome = NotNow

\* C12 witness: the existence check: a tournament in some phase, an empty
\* allowed set, execution allowed, while another guild has no tournament
C12_Witness ==
    /\ phase_hook.pc = "done"
    /\ phase_hook.allowed_phases = {}
    /\ phase_hook.guild_id \in DOMAIN tournaments
    /\ DOMAIN tournaments # Guilds
    /\ phase_hook.outcome = "allowed"

\* what the five rules say of the invoker, read off the inputs
IsGuildOwner == perm_check.author.id = perm_check.guild.owner_id
IsAdministrator == perm_check.author.administrator
Registered == perm_check.guild.id \in DOMAIN tournaments
HoldsOrganizerRole ==
    /\ Registered
    /\ tournaments[perm_check.guild.id].to_role \in
            Roles \cap perm_check.author.roles
NoRuleApplies ==
    /\ ~IsGuildOwner /\ ~IsAdministrator
    /\ ~perm_check.is_mod /\ ~perm_check.is_owner
    /\ ~HoldsOrganizerRole

\* C13: with a guild, a check that has ended returned true when the invoker
\* is the guild owner, when they are an administrator, when they are a bot
\* moderator, when they are a bot owner, and when they hold the organizer
\* role of the guild's tournament, and false when none of the five holds.
C13_PositiveRules ==
    (perm_check.pc = "done" /\ perm_check.guild # NoGuild) =>
        /\ IsGuildOwner => perm_check.outcome = "True"
        /\ IsAdministrator => perm_check.outcome = "True"
        /\ perm_check.is_mod => perm_check.outcome = "True"
        /\ perm_check.is_owner => perm_check.outcome = "True"
        /\ HoldsOrganizerRole => perm_check.outcome = "True"
        /\ NoRuleApplies => perm_check.outcome = "False"

\* C13 witness: the organizer role alone gave true
C13_Witness ==
    /\ perm_check.pc = "done" /\ perm_check.guild # NoGuild
    /\ ~IsGuildOwner /\ ~IsAdministrator
    /\ ~perm_check.is_mod /\ ~perm_check.is_owner
    /\ HoldsOrganizerRole
    /\ perm_check.outcome = "True"

\* C14: a check that has ended has ended with true or false, whatever the
\* guild, the registry and the organizer role are; without a tournament for
\* the guild and with none of rules 2 to 5 holding it returned false.
C14_NeverRaises ==
    perm_check.pc = "done" =>
        /\ perm_check.outcome \in {"True", "False"}
        /\ (/\ perm_check.guild # NoGuild
            /\ ~Registered
            /\ ~IsGuildOwner /\ ~IsAdministrator
            /\ ~perm_check.is_mod /\ ~perm_check.is_owner)
            => perm_check.outcome = "False"

\* C14 witness: no tournament for the guild, no rule holds, false returned
\* after the lookup
C14_Witness ==
    /\ perm_check.pc = "done" /\ perm_check.guild # NoGuild
    /\ ~Registered
    /\ perm_check.evaluated[Len(perm_check.evaluated)] = "tournament"
    /\ perm_check.outcome = "False"

\* C15: without a guild no rule after the first is ever evaluated, and the
\* check that has ended returned false.
C15_GuildFirst ==
    perm_check.guild = NoGuild =>
        /\ \A k \in 1..Len(perm_check.evaluated) :
                perm_check.evaluated[k] = "guild"
        /\ perm_check.pc = "done" =>
            /\ perm_check.outcome = "False"
            /\ perm_check.evaluated = <<"guild">>

\* C15 witness: a bot owner and moderator without a guild was refused
C15_Witness ==
    /\ perm_check.pc = "done" /\ perm_check.guild = NoGuild
    /\ perm_check.is_owner /\ perm_check.is_mod
    /\ perm_check.outcome = "False"

\* C16: a hook that has ended aborted, with the failure that names the
\* invocation's prefix, exactly when the guild's stored mapping has an entry
\* that is None, and allowed execution otherwise (the empty mapping and the
\* empty string included); it read the store once, and no step of it
\* changes the store or the registry.
C16_CredentialGate ==
    /\ [](cred_hook.pc = "done" =>
            LET stored == credentials[cred_hook.guild]
                unset == \E k \in DOMAIN stored : stored[k] = None
            IN  /\ unset =>
                    cred_hook.outcome =
                        [kind |-> "UserFeedbackCheckFailure",
                         prefix |-> cred_hook.clean_prefix]
                /\ ~unset => cred_hook.outcome = Allowed
                /\ cred_hook.fetches = 1)
    /\ [][credentials' = credentials /\ tournaments' = tournaments]_vars

\* C16 witness: the mapping of the guild has one entry and it is None, the
\* other guild's mapping is fully set; the hook aborted
C16_Witness ==
    /\ cred_hook.pc = "done"
    /\ cred_hook.outcome.kind = "UserFeedbackCheckFailure"
    /\ DOMAIN credentials[cred_hook.guild] = {"api"}
    /\ \E g \in Guilds :
        /\ DOMAIN credentials[g] = CredentialKeys
        /\ \A k \in CredentialKeys : credentials[g][k] = "secret"

CleanupCalls(p) == cleanups[p]["delete"] + cleanups[p]["edit"]

\* C18: the caller has a boolean only once the prompt is cleaned up, and
\* gets it from the step that makes the cleanup call; a notice is sent only
\* while no cleanup call has been made and the prompt still shows its
\* controls; an invocation that ended with its sent prompt not cleaned up
\* ended with the error of the cleanup call, whatever the try statement had
\* decided.
C18_Ordering ==
    /\ [](\A p \in Prompts :
            /\ pc[p] = "returned" =>
                /\ result[p] \in {"True", "False"}
                /\ CleanedUp(p)
                /\ CleanupCalls(p) = 1
            /\ (pc[p] # "returned") => result[p] \notin {"True", "False"}
            /\ (Ended(p) /\ WasSent(p) /\ ~CleanedUp(p)) =>
                /\ pc[p] = "raised"
                /\ result[p] = "error:cleanup"
                /\ CleanupCalls(p) = 1)
    /\ [][\A p \in Prompts :
            /\ (\E t \in Texts : notices'[p][t] # notices[p][t]) =>
                /\ CleanupCalls(p) = 0
                /\ CleanupCalls(p)' = 0
                /\ message[p].state = "live"
                /\ message[p].view # {}
            /\ (result'[p] # result[p] /\ WasSent(p)) =>
                /\ pc[p] = "cleanup"
                /\ CleanupCalls(p)' = CleanupCalls(p) + 1]_vars

\* C18 witness: the invoker approved, the delete failed, and the caller got
\* the error instead of true
C18_Witness ==
    \E p \in Prompts :
        /\ pc[p] = "raised" /\ result[p] = "error:cleanup"
        /\ pending[p] = "True" /\ x[p] = Approve(p)
        /\ args[p].delete_after /\ message[p].state = "live"
====
